---- MODULE Spec2Model ----
(***************************************************************************)
(* A model of nmap_builder.py: the interactive NMAP command builder.       *)
(*                                                                         *)
(* Text.  A Python str is modelled as a sequence of lexemes (TLA+          *)
(* strings).  A lexeme is either one blank " " or a run of non-blank       *)
(* characters; the characters an operation of the program looks at one by  *)
(* one (a comma of a list, a quote or backslash that JSON escapes, a       *)
(* digit of a number, a brace of a format field) are lexemes of their own. *)
(* Flat(s) is the str itself, and two strs are equal iff their Flat is.    *)
(***************************************************************************)
EXTENDS Integers, Sequences, FiniteSets, TLC

VARIABLES
    pc,             \* where the program waits: the prompt of the pending input(), or "exited"
    command_parts,  \* NmapBuilder.command_parts
    setOrder,       \* history variable: the fields of command_parts assigned since the reset, in order
    command,        \* the local `command` of process_built_command (build_command's result)
    caller,         \* the caller process_built_command returns to
    locals,         \* the locals of the method suspended at the prompt
    history_file,   \* ~/.nmap_builder/command_history.json
    clock,          \* the reading of datetime.now()
    saved,          \* history variable: every entry of the history, evicted ones included
    view,           \* history variable: the history view last printed, the choice made in it and
                    \* the command returned, forgotten when main_menu's loop starts over
    exit_status,    \* the status the process exited with, "running" before
    error,          \* the exception that reached main(), "" if none
    interrupted,    \* history variable: KeyboardInterrupt was raised
    inp             \* what the operator did last: the line input() returned, or Ctrl-C

vars == <<pc, command_parts, setOrder, command, caller, locals, history_file, clock, saved,
         view, exit_status, error, interrupted, inp>>

-----------------------------------------------------------------------------
(* Python str operations on lexeme sequences *)

SP == " "

\* a str made of one word
W(a) == <<a>>

\* the str as one TLA+ string
RECURSIVE Flat(_)
Flat(s) == IF s = <<>> THEN "" ELSE Head(s) \o Flat(Tail(s))

\* bool(s): a str is true iff it is not empty
Truthy(s) == s # <<>>

RECURSIVE lstrip(_)
lstrip(s) == IF s # <<>> /\ Head(s) = SP THEN lstrip(Tail(s)) ELSE s

RECURSIVE rstrip(_)
rstrip(s) == IF s # <<>> /\ s[Len(s)] = SP THEN rstrip(SubSeq(s, 1, Len(s) - 1)) ELSE s

\* str.strip()
strip(s) == rstrip(lstrip(s))

\* the first word of a str that starts with a non-blank, and the rest
RECURSIVE WordEnd(_, _)
WordEnd(s, i) == IF i < Len(s) /\ s[i + 1] # SP THEN WordEnd(s, i + 1) ELSE i

\* str.split(): the maximal runs of non-blank lexemes, in order
RECURSIVE split(_)
split(s) ==
    LET t == lstrip(s)
    IN  IF t = <<>> THEN <<>>
        ELSE LET e == WordEnd(t, 1)
             IN  <<SubSeq(t, 1, e)>> \o split(SubSeq(t, e + 1, Len(t)))

\* sep.join(list)
RECURSIVE join(_, _)
join(sep, list) ==
    IF list = <<>> THEN <<>>
    ELSE IF Len(list) = 1 THEN list[1]
    ELSE list[1] \o sep \o join(sep, Tail(list))

\* s.endswith(t)
endswith(s, t) == Len(s) >= Len(t) /\ SubSeq(s, Len(s) - Len(t) + 1, Len(s)) = t

-----------------------------------------------------------------------------
(* The option catalogs of __init__ *)

scan_types ==
    ("1" :> W("-sS")) @@ ("2" :> W("-sT")) @@ ("3" :> W("-sU")) @@ ("4" :> W("-sA")) @@
    ("5" :> W("-sW")) @@ ("6" :> W("-sM")) @@ ("7" :> W("-sN")) @@ ("8" :> W("-sF")) @@
    ("9" :> W("-sX")) @@ ("10" :> W("-sn")) @@ ("11" :> W("-sL")) @@ ("12" :> W("-sV"))

timing_templates ==
    ("0" :> W("-T0")) @@ ("1" :> W("-T1")) @@ ("2" :> W("-T2")) @@
    ("3" :> W("-T3")) @@ ("4" :> W("-T4")) @@ ("5" :> W("-T5"))

output_formats ==
    ("1" :> [flag |-> "-oN", ext |-> ".nmap"]) @@
    ("2" :> [flag |-> "-oX", ext |-> ".xml"]) @@
    ("3" :> [flag |-> "-oG", ext |-> ".gnmap"]) @@
    ("4" :> [flag |-> "-oA", ext |-> ""]) @@
    ("5" :> [flag |-> "-oS", ext |-> ".skid"])

detection_options ==
    ("1" :> W("-sV")) @@ ("2" :> W("-O")) @@ ("3" :> W("-sC")) @@
    ("4" :> W("--script=all")) @@ ("5" :> W("--script=vuln")) @@
    ("6" :> W("--script=auth")) @@ ("7" :> W("--script=discovery")) @@
    ("8" :> W("-A")) @@ ("9" :> W("--script="))

\* the key of the custom script in detection_options
CUSTOM_SCRIPT_KEY == "9"

\* port_options of get_port_specification: the flag of each key
port_options ==
    ("1" :> <<>>) @@ ("2" :> W("-F")) @@ ("3" :> W("-p-")) @@
    ("4" :> <<"--top-ports", SP, "100">>) @@ ("5" :> <<"--top-ports", SP, "1000">>) @@
    ("6" :> <<"-p", SP, "1-1023">>) @@
    ("7" :> <<"-p", SP, "80,443,8080,8443,8000,8888">>) @@
    ("8" :> <<"-p", SP, "21,22,23,25,53,80,110,143,443,993,995">>) @@
    ("9" :> <<"-p", SP, "1433,1521,3306,5432,27017">>) @@
    ("10" :> <<"-p", SP, "22,23,3389,5900,5901,5902">>) @@
    ("11" :> W("custom_range")) @@ ("12" :> W("custom_list")) @@
    ("13" :> W("custom_single"))

\* templates of quick_templates: the command pattern of each key
templates ==
    ("1" :> <<"nmap", SP, "-sn", SP, "{target}">>) @@
    ("2" :> <<"nmap", SP, "-F", SP, "{target}">>) @@
    ("3" :> <<"nmap", SP, "-sS", SP, "-sV", SP, "-O", SP, "-A", SP, "{target}">>) @@
    ("4" :> <<"nmap", SP, "-sS", SP, "-T1", SP, "-f", SP, "{target}">>) @@
    ("5" :> <<"nmap", SP, "-sU", SP, "--top-ports", SP, "20", SP, "{target}">>) @@
    ("6" :> <<"nmap", SP, "-sV", SP, "--script=vuln", SP, "{target}">>) @@
    ("7" :> <<"nmap", SP, "-p", SP, "80,443", SP, "-sV", SP, "--script=http-*", SP, "{target}">>) @@
    ("8" :> <<"nmap", SP, "-p-", SP, "-T4", SP, "{target}">>)

\* the command_parts of __init__ and of build_new_command's reset
EmptyParts ==
    [scan_type |-> <<>>, target |-> <<>>, ports |-> <<>>, timing |-> <<>>,
     detection |-> <<>>, output |-> <<>>, misc_options |-> <<>>]

\* no command: the value of `command` while no command has been built
NoCommand == <<"<none>">>

-----------------------------------------------------------------------------
(* build_command *)

\* variant: the target is appended before the miscellaneous options
build_command_TargetBeforeMisc(parts) ==
    LET c0 == <<W("nmap")>>
        c1 == IF Truthy(parts.scan_type) THEN Append(c0, parts.scan_type) ELSE c0
        c2 == IF Truthy(parts.ports) THEN Append(c1, parts.ports) ELSE c1
        c3 == IF Truthy(parts.timing) THEN Append(c2, parts.timing) ELSE c2
        c4 == IF Truthy(parts.detection) THEN c3 \o split(parts.detection) ELSE c3
        c5 == IF Truthy(parts.output) THEN c4 \o split(parts.output) ELSE c4
        c6 == Append(c5, parts.target)
        c7 == IF parts.misc_options # <<>> THEN c6 \o parts.misc_options ELSE c6
    IN  join(W(SP), c7)

build_command(parts) ==
    LET c0 == <<W("nmap")>>
        c1 == IF Truthy(parts.scan_type) THEN Append(c0, parts.scan_type) ELSE c0
        c2 == IF Truthy(parts.ports) THEN Append(c1, parts.ports) ELSE c1
        c3 == IF Truthy(parts.timing) THEN Append(c2, parts.timing) ELSE c2
        c4 == IF Truthy(parts.detection) THEN c3 \o split(parts.detection) ELSE c3
        c5 == IF Truthy(parts.output) THEN c4 \o split(parts.output) ELSE c4
        c6 == IF parts.misc_options # <<>> THEN c5 \o parts.misc_options ELSE c5
        c7 == Append(c6, parts.target)
    IN  join(W(SP), c7)

-----------------------------------------------------------------------------
(* Numbers: int(), str.isdigit() and the str of an int *)

DigitChars == <<"0", "1", "2", "3", "4", "5", "6", "7", "8", "9">>

IsDigit(a) == \E d \in 1..Len(DigitChars) : DigitChars[d] = a

DigitVal(a) == (CHOOSE d \in 1..Len(DigitChars) : DigitChars[d] = a) - 1

\* str.isdigit(): not empty, and every character a digit
isdigit(s) == s # <<>> /\ \A i \in 1..Len(s) : IsDigit(s[i])

RECURSIVE DigitsValue(_)
DigitsValue(s) ==
    IF s = <<>> THEN 0
    ELSE DigitsValue(SubSeq(s, 1, Len(s) - 1)) * 10 + DigitVal(s[Len(s)])

\* int(s) raises ValueError unless s is, blanks stripped, an optional sign and digits
IntBody(s) ==
    LET t == strip(s)
    IN  IF t # <<>> /\ t[1] \in {"+", "-"} THEN Tail(t) ELSE t

int_ok(s) == isdigit(IntBody(s))

int(s) ==
    LET t == strip(s)
    IN  IF t[1] = "-" THEN 0 - DigitsValue(IntBody(s)) ELSE DigitsValue(IntBody(s))

\* str(n) of an int n
RECURSIVE NatToStr(_)
NatToStr(n) ==
    IF n < 10 THEN <<DigitChars[n + 1]>>
    ELSE NatToStr(n \div 10) \o <<DigitChars[(n % 10) + 1]>>

IntToStr(n) == IF n < 0 THEN <<"-">> \o NatToStr(0 - n) ELSE NatToStr(n)

-----------------------------------------------------------------------------
(* Time: datetime.now() is the clock's reading, a number of ticks *)

\* datetime.isoformat()
isoformat(t) == <<"2025-01-01T00:00:">> \o NatToStr(t)

\* datetime.fromisoformat(s) raises ValueError unless s is an ISO date-time
fromisoformat_ok(s) == Len(s) >= 2 /\ s[1] = "2025-01-01T00:00:" /\ isdigit(Tail(s))

fromisoformat(s) == DigitsValue(Tail(s))

\* datetime.strftime("%Y%m%d_%H%M%S")
strftime(t) == <<"20250101_0000">> \o NatToStr(t)

-----------------------------------------------------------------------------
(* JSON: json.dump and json.load of the history file *)

RECURSIVE json_escape(_)
json_escape(s) ==
    IF s = <<>> THEN <<>>
    ELSE (IF Head(s) \in {"\"", "\\"} THEN <<"\\", Head(s)>> ELSE <<Head(s)>>)
         \o json_escape(Tail(s))

\* a str as JSON text
json_encode_str(s) == <<"\"">> \o json_escape(s) \o <<"\"">>

RECURSIVE json_unescape(_)
json_unescape(s) ==
    IF s = <<>> THEN <<>>
    ELSE IF Head(s) = "\\" /\ Len(s) >= 2
         THEN <<s[2]>> \o json_unescape(SubSeq(s, 3, Len(s)))
         ELSE <<Head(s)>> \o json_unescape(Tail(s))

\* the first unescaped quote after the opening one ends a JSON string
RECURSIVE json_string_end(_, _)
json_string_end(j, i) ==
    IF i > Len(j) THEN 0
    ELSE IF j[i] = "\\" THEN json_string_end(j, i + 2)
    ELSE IF j[i] = "\"" THEN i
    ELSE json_string_end(j, i + 1)

\* JSON text as a str
json_decode_str(j) == json_unescape(SubSeq(j, 2, json_string_end(j, 2) - 1))

\* json.dump(history, f): a JSON array of objects
json_dump(history) ==
    [type  |-> "array",
     items |-> [i \in 1..Len(history) |->
                   [timestamp |-> json_encode_str(history[i].timestamp),
                    command   |-> json_encode_str(history[i].command),
                    target    |-> json_encode_str(history[i].target)]]]

\* json.load(f) of a document that parses: a list of dicts, or whatever else the
\* document holds (here a dict)
json_load(doc) ==
    IF doc.type = "array"
    THEN [i \in 1..Len(doc.items) |->
             [timestamp |-> json_decode_str(doc.items[i].timestamp),
              command   |-> json_decode_str(doc.items[i].command),
              target    |-> json_decode_str(doc.items[i].target)]]
    ELSE [type |-> "dict"]

\* isinstance(v, list)
IsList(v) == DOMAIN v = 1..Len(v)

-----------------------------------------------------------------------------
(* The history file ~/.nmap_builder/command_history.json.  It is absent      *)
(* (kind "absent"), cannot be read or parsed (kind "garbage": open or        *)
(* json.load raises), or holds a JSON document (kind "json").                *)

AbsentFile == [kind |-> "absent"]
GarbageFile == [kind |-> "garbage"]
JsonFile(doc) == [kind |-> "json", doc |-> doc]

\* a JSON document that is not an array: {"a": 1}
ObjectDoc == [type |-> "object"]

HISTORY_LIMIT == 50
VIEW_SIZE == 10
VIEW_MAX_CHOICE == 10
VIEW_INDEX_BASE == 11

Min(a, b) == IF a < b THEN a ELSE b

\* list[-n:]
LastN(list, n) ==
    IF Len(list) <= n THEN list ELSE SubSeq(list, Len(list) - n + 1, Len(list))

\* list[j] for an int j: IndexError unless -len <= j < len
index_ok(list, j) == IF j >= 0 THEN j < Len(list) ELSE 0 - j <= Len(list)

index(list, j) == IF j >= 0 THEN list[j + 1] ELSE list[Len(list) + j + 1]

-----------------------------------------------------------------------------
(* save_command_history and show_command_history on the file *)

\* the list save_command_history appends to: the file's content, and [] when the
\* file is absent or the bare `except` swallowed the error of reading it
loaded_for_save(file) == IF file.kind = "json" THEN json_load(file.doc) ELSE <<>>

\* history.append raises AttributeError when json.load returned no list
save_raises(file) == file.kind = "json" /\ file.doc.type # "array"

history_entry(cmd, parts, now) ==
    [timestamp |-> isoformat(now), command |-> cmd, target |-> parts.target]

\* variant: the oldest entries are kept (history[:50])
truncate_KeepOldest(history) ==
    IF Len(history) <= HISTORY_LIMIT THEN history ELSE SubSeq(history, 1, HISTORY_LIMIT)

\* history = history[-50:]
truncate(history) == LastN(history, HISTORY_LIMIT)

\* the file save_command_history writes
save_command_history(file, cmd, parts, now) ==
    JsonFile(json_dump(truncate(Append(loaded_for_save(file), history_entry(cmd, parts, now)))))

\* show_command_history returns None before it prints anything
show_returns_none(file) ==
    \/ file.kind \in {"absent", "garbage"}
    \/ file.kind = "json" /\ file.doc.type = "array" /\ file.doc.items = <<>>

\* show_command_history raises while it prints: history[-10:] of a dict, or the
\* timestamp of a printed entry that is no ISO date-time
show_raises(file) ==
    /\ file.kind = "json"
    /\ \/ file.doc.type # "array"
       \/ /\ file.doc.type = "array"
          /\ LET last == LastN(file.doc.items, VIEW_SIZE)
             IN  \E i \in 1..Len(last) :
                    ~fromisoformat_ok(json_decode_str(last[i].timestamp))

\* variant: the view is printed most recent first
printed_Reversed(history) ==
    LET last == LastN(history, VIEW_SIZE)
    IN  [i \in 1..Len(last) |-> last[Len(last) + 1 - i].command]

\* the lines show_command_history prints: printed(history)[i] is the command
\* printed with number i by `for i, entry in enumerate(history[-10:], 1)`
printed(history) ==
    LET last == LastN(history, VIEW_SIZE)
    IN  [i \in 1..Len(last) |-> last[i].command]

\* the choice passes `choice.isdigit() and 1 <= int(choice) <= min(10, len(history))`
choice_accepted(history, choice) ==
    /\ isdigit(choice)
    /\ 1 <= int(choice)
    /\ int(choice) <= Min(VIEW_MAX_CHOICE, Len(history))

\* the index of history[-(11-int(choice))]
choice_index(choice) == 0 - (VIEW_INDEX_BASE - int(choice))

-----------------------------------------------------------------------------
(* Initial states *)

NoLocals == [fn |-> "none"]

\* nothing typed yet, and the operator's Ctrl-C
NoLine == <<"<nothing>">>
CtrlC == <<"^C">>

\* the clock's reading when the session starts: later than every old entry
SESSION_START == HISTORY_LIMIT + 1

\* the number of commands the session has saved
saves_done == clock - SESSION_START

NoView == [history |-> <<>>, shown |-> <<>>, choice |-> 0, selected |-> NoCommand]

\* the i-th entry an earlier session appended
old_entry(i) ==
    [timestamp |-> isoformat(i),
     command   |-> <<"nmap", SP, "-sn", SP, "192.168.1.">> \o NatToStr(i),
     target    |-> <<"192.168.1.">> \o NatToStr(i)]

old_history(n) == [i \in 1..n |-> old_entry(i)]

\* the longest history file the sessions of Spec start with
MaxOldEntries == 2

InitWith(files) ==
    /\ pc = "start"
    /\ command_parts = EmptyParts
    /\ setOrder = <<>>
    /\ command = NoCommand
    /\ caller = "none"
    /\ locals = NoLocals
    /\ history_file \in files
    /\ clock = SESSION_START
    /\ saved = IF save_raises(history_file) THEN <<>> ELSE loaded_for_save(history_file)
    /\ view = NoView
    /\ exit_status = "running"
    /\ error = ""
    /\ interrupted = FALSE
    /\ inp = NoLine

Init ==
    InitWith({AbsentFile, GarbageFile, JsonFile(ObjectDoc)}
             \cup {JsonFile(json_dump(old_history(n))) : n \in 0..MaxOldEntries})

-----------------------------------------------------------------------------
(* Steps shared by the handlers *)

buildVars == <<command_parts, setOrder>>
storeVars == <<history_file, clock, saved>>
exitVars == <<exit_status, error>>

\* self.command_parts[field] = value
Assign(field, value) ==
    /\ command_parts' = [command_parts EXCEPT ![field] = value]
    /\ setOrder' = Append(setOrder, field)

\* the next prompt is p, with nothing suspended
Goto(p) == pc' = p /\ locals' = NoLocals

\* fn(command) is called and runs up to its prompt p
Call(p, fn, cmd) == pc' = p /\ locals' = [fn |-> fn, command |-> cmd]

\* the callee goes on to its next wait with its locals
Stay(p) == pc' = p /\ locals' = locals

\* an exception reaches main(): "Unexpected error", sys.exit(1)
Crash(e) ==
    /\ pc' = "exited"
    /\ locals' = NoLocals
    /\ exit_status' = "1"
    /\ error' = e

\* process_built_command(cmd) up to the first prompt of its options menu:
\* the command is printed, explained and saved to the history
process_built_command(cmd, who, parts) ==
    IF save_raises(history_file)
    THEN /\ Crash("AttributeError")
         /\ UNCHANGED <<command, caller, storeVars>>
    ELSE /\ command' = cmd
         /\ caller' = who
         /\ history_file' = save_command_history(history_file, cmd, parts, clock)
         /\ saved' = Append(saved, history_entry(cmd, parts, clock))
         /\ clock' = clock + 1
         /\ Goto("post_menu")
         /\ UNCHANGED exitVars

\* run(): check_nmap_installed, then main_menu or sys.exit(1)
CheckNmap ==
    /\ pc = "start"
    /\ \E installed \in BOOLEAN :
          IF installed
          THEN Goto("main_menu") /\ UNCHANGED exitVars
          ELSE Goto("exited") /\ exit_status' = "1" /\ error' = ""
    /\ UNCHANGED <<buildVars, command, caller, storeVars, view, interrupted, inp>>

-----------------------------------------------------------------------------
(* main_menu *)

\* one pass of main_menu's loop: the choice is read and dispatched up to the next
\* prompt.  cap bounds the commands a session builds.
MainMenu(Lines, cap) ==
    /\ pc = "main_menu"
    /\ \E line \in Lines : inp' = line /\ (
          LET choice == Flat(strip(line))
          IN  CASE choice = "1" ->
                    \* build_new_command: the reset, then get_scan_type's prompt
                    /\ saves_done < cap
                    /\ command_parts' = EmptyParts
                    /\ setOrder' = <<>>
                    /\ Goto("scan_type")
                    /\ UNCHANGED <<view, exitVars>>
                [] choice = "2" ->
                    \* show_command_history up to its prompt
                    /\ UNCHANGED buildVars
                    /\ IF show_returns_none(history_file)
                       THEN Goto("main_menu") /\ UNCHANGED <<view, exitVars>>
                       ELSE IF show_raises(history_file)
                       THEN Crash("TypeError") /\ UNCHANGED view
                       ELSE LET history == json_load(history_file.doc)
                            IN  /\ view' = [history  |-> history,
                                            shown    |-> printed(history),
                                            choice   |-> 0,
                                            selected |-> NoCommand]
                                /\ Goto("history_choice")
                                /\ UNCHANGED exitVars
                [] choice = "3" ->
                    /\ saves_done < cap
                    /\ Goto("template_choice")
                    /\ UNCHANGED <<buildVars, view, exitVars>>
                [] choice = "4" ->
                    /\ Goto("help_continue")
                    /\ UNCHANGED <<buildVars, view, exitVars>>
                [] choice = "5" ->
                    \* sys.exit(0)
                    /\ Goto("exited")
                    /\ exit_status' = "0"
                    /\ UNCHANGED <<buildVars, view, error>>
                [] OTHER ->
                    /\ Goto("main_invalid")
                    /\ UNCHANGED <<buildVars, view, exitVars>>)
    /\ UNCHANGED <<command, caller, storeVars, interrupted>>

\* "Press Enter to continue..." of main_menu and show_help
MainContinue(Lines) ==
    /\ pc \in {"main_invalid", "help_continue"}
    /\ \E line \in Lines : inp' = line /\ ( Goto("main_menu"))
    /\ UNCHANGED <<buildVars, command, caller, storeVars, view, exitVars, interrupted>>

-----------------------------------------------------------------------------
(* The steps of build_new_command *)

stepFrame == <<command, caller, storeVars, view, exitVars, interrupted>>

\* variant: an empty choice skips the step
GetScanType_SkipsOnEmpty(Lines) ==
    /\ pc = "scan_type"
    /\ \E line \in Lines : inp' = line /\ (
          LET choice == Flat(strip(line))
          IN  IF choice \in DOMAIN scan_types
              THEN Assign("scan_type", scan_types[choice]) /\ Goto("target")
              ELSE IF choice = ""
              THEN Goto("target") /\ UNCHANGED buildVars
              ELSE Goto("scan_type") /\ UNCHANGED buildVars)
    /\ UNCHANGED stepFrame

\* get_scan_type: loops until the choice is a key of scan_types
GetScanType(Lines) ==
    /\ pc = "scan_type"
    /\ \E line \in Lines : inp' = line /\ (
          LET choice == Flat(strip(line))
          IN  IF choice \in DOMAIN scan_types
              THEN Assign("scan_type", scan_types[choice]) /\ Goto("target")
              ELSE Goto("scan_type") /\ UNCHANGED buildVars)
    /\ UNCHANGED stepFrame

\* variant: the target is taken as typed, empty or not
GetTarget_AcceptsEmpty(Lines) ==
    /\ pc = "target"
    /\ \E line \in Lines : inp' = line /\ (
          Assign("target", strip(line)) /\ Goto("ports"))
    /\ UNCHANGED stepFrame

\* get_target: loops until the target is not empty
GetTarget(Lines) ==
    /\ pc = "target"
    /\ \E line \in Lines : inp' = line /\ (
          LET target == strip(line)
          IN  IF Truthy(target)
              THEN Assign("target", target) /\ Goto("ports")
              ELSE Goto("target") /\ UNCHANGED buildVars)
    /\ UNCHANGED stepFrame

\* get_port_specification: the choice among port_options
GetPortSpecification(Lines) ==
    /\ pc = "ports"
    /\ \E line \in Lines : inp' = line /\ (
          LET choice == Flat(strip(line))
          IN  IF choice \in DOMAIN port_options
              THEN LET flag == port_options[choice]
                   IN  CASE flag = W("custom_range") ->
                             Goto("port_range_start") /\ UNCHANGED buildVars
                         [] flag = W("custom_list") ->
                             Goto("port_list") /\ UNCHANGED buildVars
                         [] flag = W("custom_single") ->
                             Goto("port_single") /\ UNCHANGED buildVars
                         [] OTHER ->
                             /\ IF Truthy(flag) THEN Assign("ports", flag)
                                                ELSE UNCHANGED buildVars
                             /\ Goto("timing")
              ELSE Goto("ports") /\ UNCHANGED buildVars)
    /\ UNCHANGED stepFrame

PORT_MIN == 1
PORT_MAX == 65535

\* variant: no upper limit on the port
valid_port_NoUpperLimit(n) == PORT_MIN <= n

\* 1 <= port <= 65535
valid_port(n) == PORT_MIN <= n /\ n <= PORT_MAX

\* the custom range: the starting port is read
PortRangeStart(Lines) ==
    /\ pc = "port_range_start"
    /\ \E line \in Lines : inp' = line /\ (
          /\ pc' = "port_range_end"
          /\ locals' = [fn |-> "get_port_specification", start_port |-> strip(line)])
    /\ UNCHANGED <<buildVars, stepFrame>>

\* the custom range: the ending port is read and the two are validated
PortRangeEnd(Lines) ==
    /\ pc = "port_range_end"
    /\ \E line \in Lines : inp' = line /\ (
          LET start_port == locals.start_port
              end_port == strip(line)
          IN  IF int_ok(start_port) /\ int_ok(end_port)
                 /\ valid_port(int(start_port)) /\ valid_port(int(end_port))
                 /\ int(start_port) <= int(end_port)
              THEN /\ Assign("ports", <<"-p", SP>> \o IntToStr(int(start_port))
                                       \o <<"-">> \o IntToStr(int(end_port)))
                   /\ Goto("timing")
              ELSE Goto("port_range_start") /\ UNCHANGED buildVars)
    /\ UNCHANGED stepFrame

\* str.split(sep) for a one-character sep
RECURSIVE split_on(_, _)
split_on(s, sep) ==
    IF \E i \in 1..Len(s) : s[i] = sep
    THEN LET i == CHOOSE k \in 1..Len(s) : s[k] = sep /\ \A j \in 1..(k - 1) : s[j] # sep
         IN  <<SubSeq(s, 1, i - 1)>> \o split_on(SubSeq(s, i + 1, Len(s)), sep)
    ELSE <<s>>

\* the custom list: every element an int in range; the text is kept as typed
PortList(Lines) ==
    /\ pc = "port_list"
    /\ \E line \in Lines : inp' = line /\ (
          LET port_list == strip(line)
              elems == split_on(port_list, ",")
          IN  IF /\ Truthy(port_list)
                 /\ \A i \in 1..Len(elems) : int_ok(elems[i])
                 /\ \A i \in 1..Len(elems) : valid_port(int(elems[i]))
              THEN Assign("ports", <<"-p", SP>> \o port_list) /\ Goto("timing")
              ELSE Goto("port_list") /\ UNCHANGED buildVars)
    /\ UNCHANGED stepFrame

\* the single port
PortSingle(Lines) ==
    /\ pc = "port_single"
    /\ \E line \in Lines : inp' = line /\ (
          LET single_port == strip(line)
          IN  IF int_ok(single_port) /\ valid_port(int(single_port))
              THEN /\ Assign("ports", <<"-p", SP>> \o IntToStr(int(single_port)))
                   /\ Goto("timing")
              ELSE Goto("port_single") /\ UNCHANGED buildVars)
    /\ UNCHANGED stepFrame

\* get_timing_template: one prompt, any other input keeps the default
GetTimingTemplate(Lines) ==
    /\ pc = "timing"
    /\ \E line \in Lines : inp' = line /\ (
          LET choice == Flat(strip(line))
          IN  /\ IF choice \in DOMAIN timing_templates
                 THEN Assign("timing", timing_templates[choice])
                 ELSE UNCHANGED buildVars
              /\ Goto("detection"))
    /\ UNCHANGED stepFrame

\* variant: the loop ends at the first unknown key
RECURSIVE detection_loop_StopsAtUnknown(_, _)
detection_loop_StopsAtUnknown(flags, rest) ==
    IF rest = <<>> THEN [done |-> TRUE, flags |-> flags, rest |-> <<>>]
    ELSE LET choice == Flat(strip(Head(rest)))
         IN  IF choice \in DOMAIN detection_options
             THEN IF choice = CUSTOM_SCRIPT_KEY
                  THEN [done |-> FALSE, flags |-> flags, rest |-> Tail(rest)]
                  ELSE detection_loop_StopsAtUnknown(
                           Append(flags, detection_options[choice]), Tail(rest))
             ELSE [done |-> TRUE, flags |-> flags, rest |-> <<>>]

\* the `for choice in choices.split(',')` loop of get_detection_options from the
\* choices `rest` on, up to its end or to the prompt for the custom script's name
RECURSIVE detection_loop(_, _)
detection_loop(flags, rest) ==
    IF rest = <<>> THEN [done |-> TRUE, flags |-> flags, rest |-> <<>>]
    ELSE LET choice == Flat(strip(Head(rest)))
         IN  IF choice \in DOMAIN detection_options
             THEN IF choice = CUSTOM_SCRIPT_KEY
                  THEN [done |-> FALSE, flags |-> flags, rest |-> Tail(rest)]
                  ELSE detection_loop(Append(flags, detection_options[choice]), Tail(rest))
             ELSE detection_loop(flags, Tail(rest))

\* the loop's outcome: the field is assigned at its end, or the script name is asked
DetectionOutcome(r) ==
    IF r.done
    THEN Assign("detection", join(W(SP), r.flags)) /\ Goto("output")
    ELSE /\ pc' = "custom_script"
         /\ locals' = [fn |-> "get_detection_options",
                       detection_flags |-> r.flags, rest |-> r.rest]
         /\ UNCHANGED buildVars

\* get_detection_options: the comma-separated choices
GetDetectionOptions(Lines) ==
    /\ pc = "detection"
    /\ \E line \in Lines : inp' = line /\ (
          LET choices == strip(line)
          IN  IF Truthy(choices)
              THEN DetectionOutcome(detection_loop(<<>>, split_on(choices, ",")))
              ELSE Goto("output") /\ UNCHANGED buildVars)
    /\ UNCHANGED stepFrame

\* the flag of the custom script: f"--script={script_name}"
custom_script_flag(script_name) == <<"--script=">> \o script_name

\* get_detection_options: the custom script's name, then the rest of the loop
CustomScriptName(Lines) ==
    /\ pc = "custom_script"
    /\ \E line \in Lines : inp' = line /\ (
          DetectionOutcome(
              detection_loop(Append(locals.detection_flags, custom_script_flag(strip(line))),
                             locals.rest)))
    /\ UNCHANGED stepFrame

\* get_output_options: the format
GetOutputOptions(Lines) ==
    /\ pc = "output"
    /\ \E line \in Lines : inp' = line /\ (
          LET choice == Flat(strip(line))
          IN  IF choice \in DOMAIN output_formats
              THEN /\ pc' = "output_filename"
                   /\ locals' = [fn |-> "get_output_options", selected |-> choice,
                                 timestamp |-> strftime(clock)]
              ELSE Goto("misc"))
    /\ UNCHANGED <<buildVars, stepFrame>>

\* get_output_options: the filename, the default when empty
OutputFilename(Lines) ==
    /\ pc = "output_filename"
    /\ \E line \in Lines : inp' = line /\ (
          LET selected == output_formats[locals.selected]
              default_name == <<"nmap_scan_">> \o locals.timestamp
              filename == IF Truthy(strip(line)) THEN strip(line) ELSE default_name
              output_flag == IF selected.ext # ""
                             THEN <<selected.flag, SP>> \o filename \o <<selected.ext>>
                             ELSE <<selected.flag, SP>> \o filename
          IN  Assign("output", output_flag) /\ Goto("misc"))
    /\ UNCHANGED stepFrame

\* get_misc_options, then build_command and process_built_command up to its menu
GetMiscOptions(Lines) ==
    /\ pc = "misc"
    /\ \E line \in Lines : inp' = line /\ (
          LET misc == strip(line)
          IN  /\ IF Truthy(misc) THEN Assign("misc_options", split(misc))
                                 ELSE UNCHANGED buildVars
              /\ process_built_command(build_command(command_parts'), "build", command_parts'))
    /\ UNCHANGED <<view, interrupted>>

-----------------------------------------------------------------------------
(* The options menu of process_built_command *)

menuFrame == <<buildVars, caller, storeVars, view, exitVars, interrupted>>

\* str.lower() of the answers to the y/n prompts
lower(s) ==
    [i \in 1..Len(s) |->
        CASE s[i] = "Y" -> "y" [] s[i] = "YES" -> "yes" [] s[i] = "Yes" -> "yes"
          [] s[i] = "N" -> "n" [] s[i] = "NO" -> "no" [] OTHER -> s[i]]

says_yes(line) == Flat(lower(strip(line))) \in {"y", "yes"}

\* one pass of the menu's loop: the choice is read and dispatched up to the next prompt
PostMenu(Lines) ==
    /\ pc = "post_menu"
    /\ \E line \in Lines : inp' = line /\ (
          LET choice == Flat(strip(line))
          IN  CASE choice = "1" ->
                    Call("execute_confirm", "execute_command", command) /\ UNCHANGED view
                [] choice = "2" ->
                    Call("script_confirm", "save_as_script", command) /\ UNCHANGED view
                [] choice = "3" ->
                    \* pyperclip.copy(command), or pyperclip is missing
                    \E imported \in BOOLEAN :
                       /\ IF imported THEN Call("post_continue", "pyperclip.copy", command)
                                      ELSE Goto("post_continue")
                       /\ UNCHANGED view
                [] choice = "4" -> Goto("modify") /\ UNCHANGED view
                [] choice = "5" ->
                    \* break: back in the caller; quick_templates then asks for Enter
                    IF caller = "templates"
                    THEN Goto("template_continue") /\ UNCHANGED view
                    ELSE Goto("main_menu") /\ view' = NoView
                [] OTHER -> Goto("post_invalid") /\ UNCHANGED view)
    /\ UNCHANGED <<command, buildVars, caller, storeVars, exitVars, interrupted>>

\* execute_command prints its report and returns to the menu's "Press Enter"
Report(text) ==
    /\ pc' = "post_continue"
    /\ locals' = [fn |-> "execute_command", command |-> locals.command, report |-> text]

\* variant: the error of starting the child is not caught
ExecuteConfirm_StartErrorEscapes(Lines) ==
    /\ pc = "execute_confirm"
    /\ \E line \in Lines : inp' = line /\ (
          IF says_yes(line)
          THEN \E started \in BOOLEAN :
                  IF started THEN Stay("child_running") /\ UNCHANGED exitVars
                             ELSE Crash("FileNotFoundError")
          ELSE Goto("post_continue") /\ UNCHANGED exitVars)
    /\ UNCHANGED <<command, buildVars, caller, storeVars, view, interrupted>>

\* execute_command: the confirmation, then subprocess.run starts the child or raises
ExecuteConfirm(Lines) ==
    /\ pc = "execute_confirm"
    /\ \E line \in Lines : inp' = line /\ (
          IF says_yes(line)
          THEN \E started \in BOOLEAN :
                  IF started THEN Stay("child_running")   \* runs command.split()
                             ELSE Report(<<"Error executing command">>)
          ELSE Goto("post_continue"))
    /\ UNCHANGED <<command, menuFrame>>

\* the exit codes of the child that the sessions see
ReturnCodes == {0, 1}

\* the child exits with some status: "Scan completed with exit code"
ChildExit ==
    /\ pc = "child_running"
    /\ \E returncode \in ReturnCodes :
          Report(<<"Scan completed with exit code", returncode>>)
    /\ UNCHANGED <<command, menuFrame, inp>>

\* variant: execute_command does not catch KeyboardInterrupt
ChildInterrupt_Propagates ==
    /\ pc = "child_running"
    /\ interrupted' = TRUE
    /\ inp' = CtrlC
    /\ Goto("exited")
    /\ exit_status' = "0"
    /\ UNCHANGED <<command, buildVars, caller, storeVars, view, error>>

\* KeyboardInterrupt while subprocess.run waits: execute_command catches it
ChildInterrupt ==
    /\ pc = "child_running"
    /\ interrupted' = TRUE
    /\ inp' = CtrlC
    /\ Report(<<"Scan interrupted by user">>)
    /\ UNCHANGED <<command, buildVars, caller, storeVars, view, exitVars>>

\* save_as_script: the confirmation
ScriptConfirm(Lines) ==
    /\ pc = "script_confirm"
    /\ \E line \in Lines : inp' = line /\ (
          IF says_yes(line) THEN Stay("script_filename") ELSE Goto("post_continue"))
    /\ UNCHANGED <<command, menuFrame>>

\* save_as_script: the filename; the script is written, or the error is printed
ScriptFilename(Lines) ==
    /\ pc = "script_filename"
    /\ \E line \in Lines : inp' = line /\ ( \E written \in BOOLEAN : Goto("post_continue"))
    /\ UNCHANGED <<command, menuFrame>>

\* "Press Enter to continue..." and "Invalid choice. Press Enter to continue..."
PostContinue(Lines) ==
    /\ pc \in {"post_continue", "post_invalid"}
    /\ \E line \in Lines : inp' = line /\ ( Goto("post_menu"))
    /\ UNCHANGED <<command, menuFrame>>

\* variant: the text typed is dropped
ModifyCommand_KeepsCommand(Lines) ==
    /\ pc = "modify"
    /\ \E line \in Lines : inp' = line /\ (command' = command /\ Goto("post_menu"))
    /\ UNCHANGED menuFrame

\* "Enter modified command": a non-empty text replaces the command
ModifyCommand(Lines) ==
    /\ pc = "modify"
    /\ \E line \in Lines : inp' = line /\ (
          LET new_command == strip(line)
          IN  /\ command' = IF Truthy(new_command) THEN new_command ELSE command
              /\ Goto("post_menu"))
    /\ UNCHANGED menuFrame

-----------------------------------------------------------------------------
(* show_command_history's choice, and quick_templates *)

\* the choice in the history view; an accepted one returns the command of
\* history[-(11-int(choice))], which main_menu hands to process_built_command
HistoryChoice(Lines, cap) ==
    /\ pc = "history_choice"
    /\ \E line \in Lines : inp' = line /\ (
          LET choice == strip(line)
              history == view.history
          IN  IF choice_accepted(history, choice)
              THEN IF index_ok(history, choice_index(choice))
                   THEN LET selected_command == index(history, choice_index(choice)).command
                        IN  /\ saves_done < cap
                            /\ view' = [view EXCEPT !.choice = int(choice),
                                                    !.selected = selected_command]
                            /\ IF Truthy(selected_command)
                               THEN process_built_command(selected_command, "history",
                                                          command_parts)
                               ELSE /\ Goto("main_menu")
                                    /\ UNCHANGED <<command, caller, storeVars, exitVars>>
                   ELSE /\ view' = [view EXCEPT !.choice = int(choice)]
                        /\ Crash("IndexError")
                        /\ UNCHANGED <<command, caller, storeVars>>
              ELSE /\ Goto("main_menu")
                   /\ view' = NoView
                   /\ UNCHANGED <<command, caller, storeVars, exitVars>>)
    /\ UNCHANGED <<buildVars, interrupted>>

\* variant: the pattern is used as it is catalogued
format_Unsubstituted(pattern, target) == pattern

\* str.format(target=target) of a template's pattern
RECURSIVE format(_, _)
format(pattern, target) ==
    IF pattern = <<>> THEN <<>>
    ELSE (IF Head(pattern) = "{target}" THEN target ELSE <<Head(pattern)>>)
         \o format(Tail(pattern), target)

\* quick_templates: the choice of the template
TemplateChoice(Lines) ==
    /\ pc = "template_choice"
    /\ \E line \in Lines : inp' = line /\ (
          LET choice == strip(line)
          IN  IF Flat(choice) \in DOMAIN templates
              THEN /\ pc' = "template_target"
                   /\ locals' = [fn |-> "quick_templates", choice |-> choice]
              ELSE IF Truthy(choice) THEN Goto("template_continue")
                                     ELSE Goto("main_menu"))
    /\ UNCHANGED <<buildVars, command, caller, storeVars, view, exitVars, interrupted>>

\* quick_templates: the target; a non-empty one instantiates the template
TemplateTarget(Lines) ==
    /\ pc = "template_target"
    /\ \E line \in Lines : inp' = line /\ (
          LET target == strip(line)
          IN  IF Truthy(target)
              THEN process_built_command(format(templates[Flat(locals.choice)], target),
                                         "templates", command_parts)
              ELSE /\ Goto("template_continue")
                   /\ UNCHANGED <<command, caller, storeVars, exitVars>>)
    /\ UNCHANGED <<buildVars, view, interrupted>>

\* quick_templates: "Press Enter to continue..." after a non-empty choice
TemplateContinue(Lines) ==
    /\ pc = "template_continue"
    /\ \E line \in Lines : inp' = line /\ ( Goto("main_menu"))
    /\ UNCHANGED <<buildVars, command, caller, storeVars, view, exitVars, interrupted>>

-----------------------------------------------------------------------------
(* KeyboardInterrupt *)

\* the prompts: the program waits in input()
InputWaits ==
    {"main_menu", "main_invalid", "help_continue", "scan_type", "target", "ports",
     "port_range_start", "port_range_end", "port_list", "port_single", "timing",
     "detection", "custom_script", "output", "output_filename", "misc", "post_menu",
     "execute_confirm", "script_confirm", "script_filename", "post_continue",
     "post_invalid", "modify", "history_choice", "template_choice", "template_target",
     "template_continue"}

\* KeyboardInterrupt in input(): no handler up to main(), which prints and sys.exit(0)
Interrupt ==
    /\ pc \in InputWaits
    /\ interrupted' = TRUE
    /\ inp' = CtrlC
    /\ Goto("exited")
    /\ exit_status' = "0"
    /\ UNCHANGED <<buildVars, command, caller, storeVars, view, error>>

-----------------------------------------------------------------------------
(* The session: every handler, the operator's lines drawn from small sets *)

\* the commands one session saves
MaxSaves == 2

EnterLines == {<<>>}
YesNoLines == {W("y"), W("n")}
MainLines == {W("1"), W("2"), W("3"), W("4"), W("5"), <<>>}
ScanLines == {<<>>, W("1")}
TargetLines == {<<>>, <<SP>>, W("10.0.0.1")}
PortLines == {<<"1", "1">>, <<"1", "2">>, <<"1", "3">>}
RangeStartLines == {<<"8", "0">>}
RangeEndLines == {<<"4", "4", "3">>, <<"7", "9">>}
PortListLines == {<<>>, <<"8", "0", ",", "4", "4", "3">>}
PortSingleLines == {W("x"), <<"2", "2">>}
TimingLines == {<<>>}
DetectionLines == {W("9")}
ScriptNameLines == {W("vuln")}
OutputLines == {W("1")}
FilenameLines == {<<>>}
MiscLines == {<<>>}
PostLines == {W("1"), W("2"), W("3"), W("4"), W("5"), W("6")}
ModifyLines == {<<>>, <<SP>>, <<"nmap", SP, "-A", SP, "10.0.0.2">>, <<"ls", SP, "-l", SP>>}
HistoryLines == {<<>>, W("1"), W("2"), <<"1", "0">>, <<"1", "1">>}
TemplateLines == {<<>>, W("1"), W("9")}
TemplateTargetLines == {<<>>, W("10.0.0.9")}

Next ==
    \/ CheckNmap
    \/ MainMenu(MainLines, MaxSaves)
    \/ MainContinue(EnterLines)
    \/ GetScanType(ScanLines)
    \/ GetTarget(TargetLines)
    \/ GetPortSpecification(PortLines)
    \/ PortRangeStart(RangeStartLines)
    \/ PortRangeEnd(RangeEndLines)
    \/ PortList(PortListLines)
    \/ PortSingle(PortSingleLines)
    \/ GetTimingTemplate(TimingLines)
    \/ GetDetectionOptions(DetectionLines)
    \/ CustomScriptName(ScriptNameLines)
    \/ GetOutputOptions(OutputLines)
    \/ OutputFilename(FilenameLines)
    \/ GetMiscOptions(MiscLines)
    \/ PostMenu(PostLines)
    \/ ExecuteConfirm(YesNoLines)
    \/ ChildExit
    \/ ChildInterrupt
    \/ ScriptConfirm(YesNoLines)
    \/ ScriptFilename(EnterLines)
    \/ PostContinue(EnterLines)
    \/ ModifyCommand(ModifyLines)
    \/ HistoryChoice(HistoryLines, MaxSaves)
    \/ TemplateChoice(TemplateLines)
    \/ TemplateTarget(TemplateTargetLines)
    \/ TemplateContinue(EnterLines)
    \/ Interrupt

Spec == Init /\ [][Next]_vars

-----------------------------------------------------------------------------
(* One build: main_menu's choice 1 and the seven steps, with more of the     *)
(* operator's answers to each prompt                                         *)

BuildMainLines == {W("1")}
BuildScanLines == {<<>>, W("1"), <<"1", "0">>, <<"1", "3">>, <<SP, "3">>}
BuildTargetLines == {<<>>, <<SP>>, W("10.0.0.1"), <<"-iL", SP, "targets.txt">>}
BuildPortLines ==
    {<<>>, W("1"), W("2"), W("4"), W("7"), <<"1", "1">>, <<"1", "2">>, <<"1", "3">>,
     <<"1", "4">>}
BuildRangeLines ==
    {<<>>, W("x"), <<"0">>, <<"1">>, <<"8", "0">>, <<"0", "8", "0">>,
     <<"6", "5", "5", "3", "5">>, <<"6", "5", "5", "3", "6">>}
BuildPortListLines ==
    {<<>>, W("x"), <<"0">>, <<"8", "0", ",", "4", "4", "3">>,
     <<"8", "0", ",", SP, "4", "4", "3">>, <<"8", "0", ",">>,
     <<"8", "0", ",", "6", "5", "5", "3", "6">>}
BuildPortSingleLines ==
    {<<>>, W("x"), <<"0">>, <<"1">>, <<"2", "2">>, <<"0", "2", "2">>, <<"-", "1">>,
     <<"6", "5", "5", "3", "5">>, <<"6", "5", "5", "3", "6">>}
BuildTimingLines == {<<>>, W("4"), W("9")}
BuildDetectionLines ==
    {<<>>, W("x"), <<"1", ",", "2">>, <<"1", ",", "x", ",", "2">>, <<"2", ",", "1">>,
     <<"1", ",", "1">>, <<"1", ",", "x", ",", "1">>, W("9"),
     <<"9", ",", "1", ",", "9">>}
BuildScriptNameLines == {<<>>, W("vuln"), W("http-title")}
BuildOutputLines == {<<>>, W("1"), W("4"), W("7")}
BuildFilenameLines == {<<>>, W("out")}
BuildMiscLines == {<<>>, <<"-v", SP, SP, "-Pn">>}

InitBuild == InitWith({AbsentFile})

NextBuild ==
    \/ CheckNmap
    \/ MainMenu(BuildMainLines, MaxSaves)
    \/ GetScanType(BuildScanLines)
    \/ GetTarget(BuildTargetLines)
    \/ GetPortSpecification(BuildPortLines)
    \/ PortRangeStart(BuildRangeLines)
    \/ PortRangeEnd(BuildRangeLines)
    \/ PortList(BuildPortListLines)
    \/ PortSingle(BuildPortSingleLines)
    \/ GetTimingTemplate(BuildTimingLines)
    \/ GetDetectionOptions(BuildDetectionLines)
    \/ CustomScriptName(BuildScriptNameLines)
    \/ GetOutputOptions(BuildOutputLines)
    \/ OutputFilename(BuildFilenameLines)
    \/ GetMiscOptions(BuildMiscLines)

SpecBuild == InitBuild /\ [][NextBuild]_vars

-----------------------------------------------------------------------------
(* build_command as a function of command_parts: on the constructed builder  *)
(* the fields are assigned in any order, each with a value its step can      *)
(* give it, and build_command is called on whatever has been assigned        *)

FieldValues ==
    [scan_type    |-> {W("-sS")},
     target       |-> {W("10.0.0.1")},
     ports        |-> {<<"-p", SP, "80,443">>, <<"--top-ports", SP, "100">>},
     timing       |-> {W("-T4")},
     detection    |-> {<<"-sV", SP, "-O">>},
     output       |-> {<<"-oN", SP, "out", ".nmap">>},
     misc_options |-> {<<W("-v"), W("-Pn")>>}]

\* self.command_parts[field] = value, as the field's step does it
AssignField ==
    /\ pc = "start"
    /\ \E field \in DOMAIN FieldValues :
          /\ \A i \in 1..Len(setOrder) : setOrder[i] # field
          /\ \E value \in FieldValues[field] : Assign(field, value)
    /\ UNCHANGED <<pc, command, caller, locals, storeVars, view, exitVars, interrupted, inp>>

\* command = self.build_command()
BuildCommand ==
    /\ pc = "start"
    /\ command' = build_command(command_parts)
    /\ pc' = "rendered"
    /\ UNCHANGED <<buildVars, caller, locals, storeVars, view, exitVars, interrupted, inp>>

InitRender == InitWith({AbsentFile})

NextRender == AssignField \/ BuildCommand

SpecRender == InitRender /\ [][NextRender]_vars

-----------------------------------------------------------------------------
(* The history store: sessions that start with a history file of any length  *)
(* up to the limit and save by templates and by reuse of the history         *)

HistoryMainLines == {W("2"), W("3")}
HistoryTemplateLines == {W("1")}
HistoryTargetLines == {W("10.0.0.9"), <<"-iL", SP, "\"", "my", SP, "hosts.txt", "\"">>}
HistoryPostLines == {W("5")}
HistoryChoiceLines ==
    {<<>>, W("x"), <<"0">>, <<"1">>, <<"2">>, <<"3">>, <<"4">>, <<"5">>, <<"6">>, <<"7">>,
     <<"8">>, <<"9">>, <<"1", "0">>, <<"1", "1">>}

\* the short history files: every length from none up to more than the view shows
MaxShortHistory == 12

\* the lengths of the history file a session starts with: the short ones, and
\* the full file and the file one entry short of full
HistoryLengths == (0..MaxShortHistory) \cup {HISTORY_LIMIT - 1, HISTORY_LIMIT}

InitHistory == InitWith({JsonFile(json_dump(old_history(n))) : n \in HistoryLengths})

NextHistory ==
    \/ CheckNmap
    \/ MainMenu(HistoryMainLines, MaxSaves)
    \/ HistoryChoice(HistoryChoiceLines, MaxSaves)
    \/ TemplateChoice(HistoryTemplateLines)
    \/ TemplateTarget(HistoryTargetLines)
    \/ TemplateContinue(EnterLines)
    \/ PostMenu(HistoryPostLines)

SpecHistory == InitHistory /\ [][NextHistory]_vars

-----------------------------------------------------------------------------
(* quick_templates: every template of the catalogue with a few targets       *)

QuickMainLines == {W("3")}
QuickTemplateLines ==
    {<<>>, W("1"), W("2"), W("3"), W("4"), W("5"), W("6"), W("7"), W("8"), W("9"),
     <<SP, "1">>}
QuickTargetLines ==
    {<<>>, W("10.0.0.1"), <<SP, "10.0.0.1", SP>>, <<"-iL", SP, "targets.txt">>, W("{x}")}
QuickPostLines == {W("5")}

InitQuick == InitWith({AbsentFile})

NextQuick ==
    \/ CheckNmap
    \/ MainMenu(QuickMainLines, MaxSaves)
    \/ TemplateChoice(QuickTemplateLines)
    \/ TemplateTarget(QuickTargetLines)
    \/ TemplateContinue(EnterLines)
    \/ PostMenu(QuickPostLines)

SpecQuick == InitQuick /\ [][NextQuick]_vars

-----------------------------------------------------------------------------
(* Properties *)

\* the words of the fields in build_command's order
FixedOrder(parts) ==
    <<W("nmap")>> \o split(parts.scan_type) \o split(parts.ports) \o split(parts.timing)
        \o split(parts.detection) \o split(parts.output) \o parts.misc_options
        \o split(parts.target)

\* C1: build_command's result is 'nmap' and then the words of scan type, ports,
\* timing, detection, output, misc options and target in that order, empty fields
\* left out, ending with the target, whatever the order the fields were assigned in;
\* scan type -sS, ports '-p 80,443' and target 10.0.0.1 give
\* 'nmap -sS -p 80,443 10.0.0.1'.
C1_FixedTokenOrder ==
    pc = "rendered" =>
        /\ split(command) = FixedOrder(command_parts)
        /\ endswith(command, command_parts.target)
        /\ Head(command) = "nmap"
        /\ ( /\ command_parts.scan_type = W("-sS")
             /\ command_parts.ports = <<"-p", SP, "80,443">>
             /\ command_parts.target = W("10.0.0.1")
             /\ command_parts.timing = <<>> /\ command_parts.detection = <<>>
             /\ command_parts.output = <<>> /\ command_parts.misc_options = <<>> )
           => Flat(command) = "nmap -sS -p 80,443 10.0.0.1"

\* C1's case: the command rendered after the target, the ports and the scan type
\* were assigned in that order
C1_Witness ==
    /\ pc = "rendered"
    /\ setOrder = <<"target", "ports", "scan_type">>
    /\ Flat(command) = "nmap -sS -p 80,443 10.0.0.1"

\* C2: the history file holds at most 50 entries, and they are the most recently
\* appended entries in the order they were appended
C2_HistoryBounded ==
    (history_file.kind = "json" /\ history_file.doc.type = "array") =>
        LET history == json_load(history_file.doc)
        IN  /\ Len(history) <= HISTORY_LIMIT
            /\ Len(history) = Min(HISTORY_LIMIT, Len(saved))
            /\ \A i \in 1..Len(history) :
                  history[i] = saved[Len(saved) - Len(history) + i]

\* C2's case: an entry was appended to a full history and the oldest one is gone
C2_Witness ==
    /\ saves_done >= 1
    /\ Len(saved) > HISTORY_LIMIT
    /\ history_file.kind = "json"
    /\ Len(history_file.doc.items) = HISTORY_LIMIT

\* C3 as claimed: an accepted choice i in a history of length L returns the
\* command of the entry at 0-based position L - i
C3_DisplayIndexInversion ==
    view.choice # 0 =>
        /\ error = ""
        /\ view.selected = view.history[Len(view.history) - view.choice + 1].command

\* C4 as claimed: the view numbers the last min(10, L) entries most recent first
C4_MostRecentFirst ==
    pc = "history_choice" =>
        /\ Len(view.shown) = Min(VIEW_SIZE, Len(view.history))
        /\ \A i \in 1..Len(view.shown) :
              view.shown[i] = view.history[Len(view.history) - i + 1].command

\* C4: the view numbers the last min(10, L) entries 1..k oldest first: number 1 is
\* the oldest entry shown and number k the most recently appended entry
C4_OldestFirst ==
    pc = "history_choice" =>
        LET L == Len(view.history)
            k == Min(VIEW_SIZE, L)
        IN  /\ Len(view.shown) = k
            /\ \A i \in 1..k : view.shown[i] = view.history[L - k + i].command

\* C4's case: a view of a history longer than the view
C4_Witness ==
    /\ pc = "history_choice"
    /\ Len(view.history) > VIEW_SIZE
    /\ view.shown[Len(view.shown)] = view.history[Len(view.history)].command

\* the field each step assigns, and the prompt that follows an optional step
StepField ==
    [scan_type |-> "scan_type", target |-> "target", ports |-> "ports",
     timing |-> "timing", detection |-> "detection", output |-> "output",
     misc |-> "misc_options"]

NextPrompt == [timing |-> "detection", detection |-> "output", output |-> "misc"]

NextStepOf(p) == IF p = "scan_type" THEN "target" ELSE "ports"

\* the operator's line at the prompt just answered was empty
EmptyLine == strip(inp') = <<>>

\* C5 as claimed: at every step but Target an empty input leaves the step with its
\* field absent
C5_AllButTargetSkippable ==
    [][(pc \in {"scan_type", "ports", "timing", "detection", "output", "misc"} /\ EmptyLine)
          => (pc' # pc /\ command_parts'[StepField[pc]] = <<>>)]_vars

\* C5: Timing, Detection, Output and Misc are skipped by an empty input, which goes
\* on to the next step with the step's field absent; ScanType, Target and Ports ask
\* again on an empty input; ScanType is left with its field set, Target with a
\* non-empty target, and Ports with its field absent only by its key 1
C5_OptionalSteps ==
    [][/\ (pc \in {"timing", "detection", "output"} /\ EmptyLine)
            => (pc' = NextPrompt[pc] /\ command_parts'[StepField[pc]] = <<>>)
       /\ (pc = "misc" /\ EmptyLine)
            => (pc' # "misc" /\ command_parts'.misc_options = <<>>)
       /\ (pc \in {"scan_type", "target", "ports"} /\ EmptyLine)
            => (pc' = pc /\ command_parts' = command_parts)
       /\ (pc = "scan_type" /\ pc' = "target") => command_parts'.scan_type # <<>>
       /\ (pc = "target" /\ pc' = "ports") => command_parts'.target # <<>>
       /\ (pc \in {"scan_type", "target"}) => pc' \in {pc, NextStepOf(pc), "exited"}
       /\ (pc = "ports" /\ pc' = "timing" /\ command_parts'.ports = <<>>)
            => Flat(strip(inp')) = "1"]_vars

\* C5's case: a build in which every step that can be skipped was skipped
C5_Witness ==
    /\ pc = "post_menu"
    /\ caller = "build"
    /\ inp = <<>>
    /\ command_parts.timing = <<>> /\ command_parts.detection = <<>>
    /\ command_parts.output = <<>> /\ command_parts.misc_options = <<>>
    /\ command_parts.ports = <<>>
    /\ Flat(command) = "nmap -sS 10.0.0.1"

\* C6 as claimed: at both target prompts an empty input asks again
C6_EmptyTargetLoops ==
    [][(pc \in {"target", "template_target"} /\ EmptyLine) => pc' = pc]_vars

\* a command built from an empty target ends with the blank before the target
EndsWithBlank(cmd) == endswith(cmd, W(SP))

\* C6: an empty target is rejected at both target prompts and no command is built
\* from it: the Target step asks again, quick_templates gives the template up and
\* goes on to its "Press Enter" prompt; nothing is built or saved
C6_EmptyTargetRejected ==
    [][/\ (pc = "target" /\ EmptyLine)
            => (pc' = "target" /\ UNCHANGED <<command_parts, command, history_file>>)
       /\ (pc = "template_target" /\ EmptyLine)
            => (pc' = "template_continue"
                /\ UNCHANGED <<command_parts, command, history_file>>)
       /\ \A i \in 1..Len(saved') : ~EndsWithBlank(saved'[i].command)]_vars

\* C6's case: the template's target prompt was answered with an empty line
C6_Witness ==
    /\ pc = "template_continue"
    /\ strip(inp) = <<>>
    /\ command = NoCommand

\* C7 as claimed: build_command on an empty target returns no command
C7_RenderFailsOnEmptyTarget ==
    (pc = "rendered" /\ command_parts.target = <<>>) => command = NoCommand

\* the history viewed ends with an entry this session saved
ViewedAfterSave ==
    /\ view.history # <<>>
    /\ fromisoformat(view.history[Len(view.history)].timestamp) >= SESSION_START

\* C8 as claimed: after a save the command of the file's last entry is the command
\* saved, and choosing that entry (the last line of the view) returns it
C8_RoundTrip ==
    /\ (saves_done >= 1 /\ history_file.kind = "json" /\ history_file.doc.type = "array")
          => json_load(history_file.doc)[Len(history_file.doc.items)].command
                = saved[Len(saved)].command
    /\ (ViewedAfterSave /\ view.choice # 0 /\ view.choice = Len(view.shown))
          => /\ error = ""
             /\ view.selected = view.history[Len(view.history)].command

\* the file is unreadable, or holds something else than a list of entries
Corrupt(file) == file.kind = "garbage" \/ (file.kind = "json" /\ file.doc.type # "array")

\* C9 as claimed: with a corrupt history file no error reaches the top level
C9_CorruptStoreDegrades == Corrupt(history_file) => error = ""

\* C10 as claimed: once interrupted, the process has exited with status 0
C10_InterruptTerminates == interrupted => (pc = "exited" /\ exit_status = "0")

\* C10: Ctrl-C at a prompt ends the process with status 0 and nothing follows the
\* exit; Ctrl-C while the child runs is caught by execute_command, and the options
\* menu goes on with the same command
C10_InterruptHandling ==
    [][/\ (inp' = CtrlC /\ pc # "child_running")
            => (pc' = "exited" /\ exit_status' = "0" /\ error' = "")
       /\ (inp' = CtrlC /\ pc = "child_running")
            => (pc' = "post_continue" /\ exit_status' = "running"
                /\ command' = command)
       /\ pc # "exited"]_vars

\* C10's case: the child was interrupted and the session goes on
C10_Witness ==
    /\ interrupted
    /\ inp = CtrlC
    /\ pc = "post_continue"
    /\ exit_status = "running"

\* the decimal numeral of a port number, as the f-string writes it
PortText(p) == Flat(NatToStr(p))

\* the line typed is a whole number, with or without a sign
IsNumber(s) == int_ok(s)

\* C11: a single port p is accepted iff 1 <= p <= 65535 and gives the ports flag
\* '-p p'; a range (a, b) is accepted iff both are in 1..65535 and a <= b and gives
\* exactly '-p a-b'; every other input sets no ports flag and asks again
C11_PortValidation ==
    [][/\ pc = "port_single" =>
            LET s == strip(inp')
                accepted == IsNumber(s) /\ 1 <= int(s) /\ int(s) <= 65535
            IN  IF accepted
                THEN /\ pc' = "timing"
                     /\ Flat(command_parts'.ports) = "-p " \o PortText(int(s))
                ELSE pc' \in {"port_single", "exited"} /\ command_parts'.ports = <<>>
       /\ pc = "port_range_end" =>
            LET a == locals.start_port
                b == strip(inp')
                accepted == /\ IsNumber(a) /\ IsNumber(b)
                            /\ 1 <= int(a) /\ int(a) <= 65535
                            /\ 1 <= int(b) /\ int(b) <= 65535
                            /\ int(a) <= int(b)
            IN  IF accepted
                THEN /\ pc' = "timing"
                     /\ Flat(command_parts'.ports)
                          = "-p " \o PortText(int(a)) \o "-" \o PortText(int(b))
                ELSE pc' \in {"port_range_start", "exited"} /\ command_parts'.ports = <<>>]_vars

\* C11's case: the widest range was accepted
C11_Witness ==
    /\ pc = "timing"
    /\ Flat(inp) = "65535"
    /\ Flat(command_parts.ports) = "-p 1-65535"

\* the words of the detection flags
DetectionWords == split(command_parts.detection)

\* C12 as claimed: an empty script name is asked again, and the detection flags
\* never hold a bare '--script=' with no name
C12_ScriptNameRequired ==
    \A i \in 1..Len(DetectionWords) : Flat(DetectionWords[i]) # "--script="

\* the catalogued commands of quick_templates up to the placeholder
TemplatePrefix ==
    ("1" :> "nmap -sn ") @@
    ("2" :> "nmap -F ") @@
    ("3" :> "nmap -sS -sV -O -A ") @@
    ("4" :> "nmap -sS -T1 -f ") @@
    ("5" :> "nmap -sU --top-ports 20 ") @@
    ("6" :> "nmap -sV --script=vuln ") @@
    ("7" :> "nmap -p 80,443 -sV --script=http-* ") @@
    ("8" :> "nmap -p- -T4 ")

\* C13: for every template key k in 1..8 and non-empty target t the command handed
\* to process_built_command is the catalogued pattern of k with {target} replaced
\* by t and nothing else changed; key 1 with 10.0.0.1 gives 'nmap -sn 10.0.0.1'
C13_TemplateSubstitution ==
    [][(pc = "template_target" /\ strip(inp') # <<>>) =>
          LET k == Flat(locals.choice)
              t == Flat(strip(inp'))
          IN  /\ k \in DOMAIN TemplatePrefix
              /\ pc' = "post_menu"
              /\ caller' = "templates"
              /\ Flat(command') = TemplatePrefix[k] \o t
              /\ (k = "1" /\ t = "10.0.0.1") => Flat(command') = "nmap -sn 10.0.0.1"
              /\ saved'[Len(saved')].command = command']_vars

\* C13's case: template 7 instantiated with a target of two words
C13_Witness ==
    /\ pc = "post_menu"
    /\ caller = "templates"
    /\ Flat(command) = "nmap -p 80,443 -sV --script=http-* -iL targets.txt"

\* the waits of process_built_command's menu and of the functions it calls, and
\* the prompts of the step sequence
MenuWaits ==
    {"post_menu", "execute_confirm", "child_running", "script_confirm", "script_filename",
     "post_continue", "post_invalid", "modify"}

StepWaits ==
    {"scan_type", "target", "ports", "port_range_start", "port_range_end", "port_list",
     "port_single", "timing", "detection", "custom_script", "output", "output_filename",
     "misc"}

\* the menu's choice just read is 'return'
ReturnChosen == pc = "post_menu" /\ Flat(strip(inp')) = "5"

\* C14: once process_built_command is entered its menu loops over execute,
\* save-script, copy, modify and invalid choices until 5 is chosen; it never goes
\* back to the step sequence and leaves the build state alone; a non-empty text at
\* the modify prompt (blanks at its ends stripped, as at every prompt) becomes the
\* command as typed, and execute, save-script and copy are given the current command
C14_PostBuildMenu ==
    [][(pc \in MenuWaits) =>
          /\ pc' \notin StepWaits
          /\ command_parts' = command_parts
          /\ IF ReturnChosen
             THEN pc' \in {"main_menu", "template_continue"}
             ELSE pc' \in MenuWaits \cup {"exited"}
          /\ pc' = "exited" => inp' = CtrlC
          /\ (pc = "modify" /\ inp' # CtrlC)
                => command' = IF strip(inp') # <<>> THEN strip(inp') ELSE command
          /\ pc # "modify" => command' = command
          /\ pc' \in {"execute_confirm", "child_running", "script_confirm", "script_filename"}
                => locals'.command = command'
          /\ (pc = "post_menu" /\ Flat(strip(inp')) = "3" /\ locals' # NoLocals)
                => (locals'.command = command')]_vars

\* C14's case: the command was replaced at the modify prompt and the child runs
\* the replaced command
C14_Witness ==
    /\ pc = "child_running"
    /\ Flat(command) = "nmap -A 10.0.0.2"
    /\ locals.command = command

\* execute_command's report is of a child that could not be started or that
\* exited with a status other than 0
ExecutionFailed(l) ==
    /\ "report" \in DOMAIN l
    /\ \/ Head(l.report) = "Error executing command"
       \/ Head(l.report) = "Scan completed with exit code" /\ l.report[2] # 0

\* C15: when the operator confirms execution and the child cannot be started or
\* exits non-zero, execute_command reports it, nothing reaches the top level, and
\* control returns through "Press Enter" to the options menu with the command
\* unchanged
C15_ExecutionErrorsNotFatal ==
    [][/\ (pc \in {"execute_confirm", "child_running"} /\ inp' # CtrlC)
            => /\ pc' \in {"child_running", "post_continue"}
               /\ command' = command
               /\ error' = "" /\ exit_status' = exit_status
               /\ (pc' = "post_continue" /\ (pc = "child_running" \/ says_yes(inp')))
                     => "report" \in DOMAIN locals'
       /\ (pc = "post_continue" /\ ExecutionFailed(locals) /\ inp' # CtrlC)
            => (pc' = "post_menu" /\ command' = command /\ error' = "")]_vars

\* C15's case: the child could not be started, and the menu is back with the command
C15_Witness ==
    /\ pc = "post_continue"
    /\ ExecutionFailed(locals)
    /\ Head(locals.report) = "Error executing command"
    /\ locals.command = command
    /\ exit_status = "running"

\* the catalogue of detection flags, by key
DetectionFlag ==
    ("1" :> "-sV") @@ ("2" :> "-O") @@ ("3" :> "-sC") @@ ("4" :> "--script=all") @@
    ("5" :> "--script=vuln") @@ ("6" :> "--script=auth") @@
    ("7" :> "--script=discovery") @@ ("8" :> "-A")

\* the keys of a comma-separated list, blanks around each dropped
KeysOf(elems) == [i \in 1..Len(elems) |-> Flat(strip(elems[i]))]

\* the keys before the first custom-script key, and the elements after it
FirstCustom(keys) ==
    IF \E i \in 1..Len(keys) : keys[i] = "9"
    THEN CHOOSE i \in 1..Len(keys) : keys[i] = "9" /\ \A j \in 1..(i - 1) : keys[j] # "9"
    ELSE Len(keys) + 1

\* the catalogue flags of the recognised keys, in the order of the keys
FlagsOfKeys(keys) ==
    LET known == SelectSeq(keys, LAMBDA k : k \in DOMAIN DetectionFlag)
    IN  [i \in 1..Len(known) |-> DetectionFlag[known[i]]]

FlatEach(ws) == [i \in 1..Len(ws) |-> Flat(ws[i])]

RECURSIVE JoinBlank(_)
JoinBlank(strs) ==
    IF strs = <<>> THEN ""
    ELSE IF Len(strs) = 1 THEN strs[1]
    ELSE strs[1] \o " " \o JoinBlank(Tail(strs))

\* one pass of the selection from the flags `before` over the elements `elems`:
\* up to the end of the list, or up to the next custom-script key
SelectionStep(before, elems) ==
    LET keys == KeysOf(elems)
        n == FirstCustom(keys)
        flags == before \o FlagsOfKeys(SubSeq(keys, 1, n - 1))
    IN  IF n > Len(keys)
        THEN /\ pc' = "output"
             /\ Flat(command_parts'.detection) = JoinBlank(flags)
        ELSE /\ pc' = "custom_script"
             /\ FlatEach(locals'.detection_flags) = flags
             /\ locals'.rest = SubSeq(elems, n + 1, Len(elems))

\* C16: the detection flags are the catalogue flags of the recognised keys of the
\* comma-separated list in input order; unknown keys are skipped without error or
\* new prompt, duplicate keys give duplicate flags, and the custom-script key gives
\* '--script=' and the name read for it at its place in the order
C16_DetectionSelection ==
    [][/\ (pc = "detection" /\ strip(inp') # <<>>)
            => SelectionStep(<<>>, split_on(strip(inp'), ","))
       /\ pc = "custom_script"
            => SelectionStep(FlatEach(locals.detection_flags)
                                \o <<"--script=" \o Flat(strip(inp'))>>,
                             locals.rest)]_vars

\* C16's case: a duplicate key with an unknown key between the two
C16_Witness ==
    /\ pc = "output"
    /\ Flat(inp) = "1,x,1"
    /\ Flat(command_parts.detection) = "-sV -sV"

\* C17 as claimed: an accepted choice i raises no error and returns the command
\* printed next to the number i in the history view
C17_SelectionMatchesView ==
    (view.choice # 0 /\ view.choice <= Len(view.shown)) =>
        /\ error = ""
        /\ view.selected = view.shown[view.choice]

\* C18 as claimed: every entry of the history has the target of its own command
\* as its target field, never an empty one and never that of an earlier build
C18_EntryTargetMatchesCommand ==
    \A i \in 1..Len(saved) :
        /\ saved[i].target # <<>>
        /\ endswith(saved[i].command, saved[i].target)

====
